---------------------------- MODULE Spec2Model ----------------------------
(***************************************************************************)
(* Azure Monitor Data Collector API client                                 *)
(* (src/azuredatacollector/datacollector.py).                              *)
(*                                                                         *)
(* Text is a sequence of one-character strings.  A row is a Python dict    *)
(* with string keys and string values, kept as the sequence of its         *)
(* <<key, value>> items in insertion order.                                *)
(***************************************************************************)
EXTENDS Integers, Sequences, FiniteSets, TLC

-----------------------------------------------------------------------------
(* Bounds of the model *)

\* longest row list handed to post_data
MaxRows == 3
\* number of clock ticks the environment may take
MaxTicks == 2

-----------------------------------------------------------------------------
(* Program constants *)

DEFAULT_MAX_BATCH_SIZE == 29000000
DEFAULT_RESOURCE == <<"/", "a", "p", "i", "/", "l", "o", "g", "s">>
DEFAULT_CONTENT_TYPE ==
  <<"a", "p", "p", "l", "i", "c", "a", "t", "i", "o", "n", "/", "j", "s", "o", "n">>

\* the one status code post_data accepts
HTTP_OK == 200

-----------------------------------------------------------------------------
(* Text helpers *)

\* the character U+00E9, outside ASCII
EACUTE == "U+00E9"

RECURSIVE Join(_, _)
\* sep.join(parts) for a sequence of texts
Join(parts, sep) ==
  IF parts = <<>> THEN <<>>
  ELSE IF Len(parts) = 1 THEN parts[1]
  ELSE parts[1] \o sep \o Join(Tail(parts), sep)

RECURSIVE DecimalDigits(_)
DecimalDigits(n) ==
  LET d == <<"0", "1", "2", "3", "4", "5", "6", "7", "8", "9">>[(n % 10) + 1]
  IN IF n < 10 THEN <<d>> ELSE Append(DecimalDigits(n \div 10), d)

\* str(n) / f"{n}" for an int
IntStr(n) == IF n < 0 THEN <<"-">> \o DecimalDigits(-n) ELSE DecimalDigits(n)

RECURSIVE Sum(_)
Sum(s) == IF s = <<>> THEN 0 ELSE Head(s) + Sum(Tail(s))

RECURSIVE Concat(_)
\* the concatenation of a sequence of sequences
Concat(ss) == IF ss = <<>> THEN <<>> ELSE Head(ss) \o Concat(Tail(ss))

-----------------------------------------------------------------------------
(* str(row): the size __batch accounts for *)

\* repr of a str whose characters are letters, the double quote or U+00E9:
\* no single quote and no backslash occurs, so Python wraps the text in
\* single quotes and escapes nothing (U+00E9 is printable)
PyReprStr(s) == <<"'">> \o s \o <<"'">>

PyReprItem(item) == PyReprStr(item[1]) \o <<":", " ">> \o PyReprStr(item[2])

\* str(row) of a dict
PyStr(row) ==
  <<"{">> \o Join([k \in 1..Len(row) |-> PyReprItem(row[k])], <<",", " ">>) \o <<"}">>

-----------------------------------------------------------------------------
(* json.dumps(batch): the body post_data sends *)

\* json.dumps escapes with ensure_ascii=True
JsonChar(c) ==
  IF c = "\"" THEN <<"\\", "\"">>
  ELSE IF c = EACUTE THEN <<"\\", "u", "0", "0", "e", "9">>
  ELSE <<c>>

JsonStr(s) == <<"\"">> \o Concat([k \in 1..Len(s) |-> JsonChar(s[k])]) \o <<"\"">>

JsonItem(item) == JsonStr(item[1]) \o <<":", " ">> \o JsonStr(item[2])

JsonDict(row) ==
  <<"{">> \o Join([k \in 1..Len(row) |-> JsonItem(row[k])], <<",", " ">>) \o <<"}">>

\* json.dumps(batch) of a list of dicts
JsonDumps(batch) ==
  <<"[">> \o Join([k \in 1..Len(batch) |-> JsonDict(batch[k])], <<",", " ">>) \o <<"]">>

-----------------------------------------------------------------------------
(* datetime: the timestamp handed to __build_authorization_headers *)

DateTime(y, mo, d, h, mi, s) ==
  [year |-> y, month |-> mo, day |-> d, hour |-> h, minute |-> mi, second |-> s]

IsLeap(y) == y % 4 = 0 /\ (y % 100 # 0 \/ y % 400 = 0)

DaysInMonth(y, mo) ==
  IF mo = 2 /\ IsLeap(y) THEN 29
  ELSE <<31, 28, 31, 30, 31, 30, 31, 31, 30, 31, 30, 31>>[mo]

DaysBeforeYear(y) ==
  (y - 1) * 365 + ((y - 1) \div 4) - ((y - 1) \div 100) + ((y - 1) \div 400)

RECURSIVE DaysBeforeMonth(_, _)
DaysBeforeMonth(y, mo) ==
  IF mo = 1 THEN 0 ELSE DaysBeforeMonth(y, mo - 1) + DaysInMonth(y, mo - 1)

\* date.toordinal()
ToOrdinal(dt) == DaysBeforeYear(dt.year) + DaysBeforeMonth(dt.year, dt.month) + dt.day

\* date.weekday(): Monday is 0
Weekday(dt) == (ToOrdinal(dt) + 6) % 7

DAY_ABBR == <<<<"M", "o", "n">>, <<"T", "u", "e">>, <<"W", "e", "d">>, <<"T", "h", "u">>, <<"F", "r", "i">>, <<"S", "a", "t">>, <<"S", "u", "n">>>>
MONTH_ABBR ==
  <<<<"J", "a", "n">>, <<"F", "e", "b">>, <<"M", "a", "r">>, <<"A", "p", "r">>, <<"M", "a", "y">>, <<"J", "u", "n">>,
    <<"J", "u", "l">>, <<"A", "u", "g">>, <<"S", "e", "p">>, <<"O", "c", "t">>, <<"N", "o", "v">>, <<"D", "e", "c">>>>

\* %d, %H, %M, %S: two digits, zero padded
TwoDigits(n) == IF n < 10 THEN <<"0">> \o IntStr(n) ELSE IntStr(n)

\* %Y for the years 1000..9999
FourDigits(n) == IntStr(n)

\* the wall clock one second later
AddSecond(dt) ==
  IF dt.second < 59 THEN [dt EXCEPT !.second = dt.second + 1]
  ELSE IF dt.minute < 59 THEN [dt EXCEPT !.second = 0, !.minute = dt.minute + 1]
  ELSE IF dt.hour < 23 THEN [dt EXCEPT !.second = 0, !.minute = 0, !.hour = dt.hour + 1]
  ELSE IF dt.day < DaysInMonth(dt.year, dt.month)
       THEN DateTime(dt.year, dt.month, dt.day + 1, 0, 0, 0)
  ELSE IF dt.month < 12 THEN DateTime(dt.year, dt.month + 1, 1, 0, 0, 0)
  ELSE DateTime(dt.year + 1, 1, 1, 0, 0, 0)

-----------------------------------------------------------------------------
(* bytes(string_to_hash, encoding="utf-8"), base64 *)

\* the printable ASCII characters, code points 32..126 (U+0060 is the grave
\* accent, which a TLA+ string cannot hold)
ASCII == <<
  " ", "!", "\"", "#", "$", "%", "&", "'", "(", ")", "*", "+", ",", "-", ".", "/",
  "0", "1", "2", "3", "4", "5", "6", "7", "8", "9", ":", ";", "<", "=", ">", "?",
  "@", "A", "B", "C", "D", "E", "F", "G", "H", "I", "J", "K", "L", "M", "N", "O",
  "P", "Q", "R", "S", "T", "U", "V", "W", "X", "Y", "Z", "[", "\\", "]", "^", "_",
  "U+0060", "a", "b", "c", "d", "e", "f", "g", "h", "i", "j", "k", "l", "m", "n", "o",
  "p", "q", "r", "s", "t", "u", "v", "w", "x", "y", "z", "{", "|", "}", "~"
>>

\* the UTF-8 byte of an ASCII character
Ord(c) == IF c = "\n" THEN 10 ELSE 31 + (CHOOSE i \in 1..Len(ASCII) : ASCII[i] = c)

\* bytes(text, encoding="utf-8") of an ASCII text
Utf8(text) == [i \in 1..Len(text) |-> Ord(text[i])]

B64_ALPHABET == <<
  "A", "B", "C", "D", "E", "F", "G", "H", "I", "J", "K", "L", "M", "N", "O", "P",
  "Q", "R", "S", "T", "U", "V", "W", "X", "Y", "Z", "a", "b", "c", "d", "e", "f",
  "g", "h", "i", "j", "k", "l", "m", "n", "o", "p", "q", "r", "s", "t", "u", "v",
  "w", "x", "y", "z", "0", "1", "2", "3", "4", "5", "6", "7", "8", "9", "+", "/"
>>

B64Value(c) == (CHOOSE i \in 1..64 : B64_ALPHABET[i] = c) - 1

\* the bytes of one group of four base64 characters
B64DecodeGroup(g) ==
  LET pad == IF g[3] = "=" THEN 2 ELSE IF g[4] = "=" THEN 1 ELSE 0
      v1 == B64Value(g[1])
      v2 == B64Value(g[2])
      v3 == IF pad = 2 THEN 0 ELSE B64Value(g[3])
      v4 == IF pad >= 1 THEN 0 ELSE B64Value(g[4])
      b1 == v1 * 4 + (v2 \div 16)
      b2 == (v2 % 16) * 16 + (v3 \div 4)
      b3 == (v3 % 4) * 64 + v4
  IN IF pad = 2 THEN <<b1>> ELSE IF pad = 1 THEN <<b1, b2>> ELSE <<b1, b2, b3>>

RECURSIVE B64Decode(_)
\* base64.b64decode of a padded base64 text
B64Decode(text) ==
  IF text = <<>> THEN <<>>
  ELSE B64DecodeGroup(SubSeq(text, 1, 4)) \o B64Decode(SubSeq(text, 5, Len(text)))

\* the four characters of one group of up to three bytes
B64EncodeGroup(g) ==
  LET b1 == g[1]
      b2 == IF Len(g) >= 2 THEN g[2] ELSE 0
      b3 == IF Len(g) >= 3 THEN g[3] ELSE 0
  IN << B64_ALPHABET[(b1 \div 4) + 1],
        B64_ALPHABET[(b1 % 4) * 16 + (b2 \div 16) + 1],
        IF Len(g) >= 2 THEN B64_ALPHABET[(b2 % 16) * 4 + (b3 \div 64) + 1] ELSE "=",
        IF Len(g) >= 3 THEN B64_ALPHABET[(b3 % 64) + 1] ELSE "=" >>

RECURSIVE B64Encode(_)
\* base64.b64encode(...).decode()
B64Encode(bytes) ==
  IF bytes = <<>> THEN <<>>
  ELSE IF Len(bytes) <= 3 THEN B64EncodeGroup(bytes)
  ELSE B64EncodeGroup(SubSeq(bytes, 1, 3)) \o B64Encode(SubSeq(bytes, 4, Len(bytes)))

-----------------------------------------------------------------------------
(* hashlib.sha256 (FIPS 180-4).  A 32-bit word is the pair <<high, low>> of  *)
(* its 16-bit halves.                                                        *)

POWERS_OF_2 ==
  <<1, 2, 4, 8, 16, 32, 64, 128, 256, 512, 1024, 2048, 4096, 8192, 16384, 32768, 65536>>

Pow2(n) == POWERS_OF_2[n + 1]

\* bit i of the 16-bit value a
Bit(a, i) == (a \div Pow2(i)) % 2

\* the 16-bit value whose bit i is f[i]
FromBits(f) ==
  (((f[0] + 2 * f[1]) + (4 * f[2] + 8 * f[3]))
    + ((16 * f[4] + 32 * f[5]) + (64 * f[6] + 128 * f[7])))
  + (((256 * f[8] + 512 * f[9]) + (1024 * f[10] + 2048 * f[11]))
    + ((4096 * f[12] + 8192 * f[13]) + (16384 * f[14] + 32768 * f[15])))

Xor16(a, b) == FromBits([i \in 0..15 |-> (Bit(a, i) + Bit(b, i)) % 2])

Xor3of16(a, b, c) == FromBits([i \in 0..15 |-> (Bit(a, i) + Bit(b, i) + Bit(c, i)) % 2])

\* (x AND y) XOR (NOT x AND z), bit by bit: x selects y or z
Ch16(x, y, z) == FromBits([i \in 0..15 |-> IF Bit(x, i) = 1 THEN Bit(y, i) ELSE Bit(z, i)])

\* (x AND y) XOR (x AND z) XOR (y AND z), bit by bit: the majority
Maj16(x, y, z) == FromBits([i \in 0..15 |-> (Bit(x, i) + Bit(y, i) + Bit(z, i)) \div 2])

Xor3W(a, b, c) == <<Xor3of16(a[1], b[1], c[1]), Xor3of16(a[2], b[2], c[2])>>

\* addition modulo 2^32
AddW(a, b) ==
  LET lo == a[2] + b[2]
      hi == a[1] + b[1] + (lo \div 65536)
  IN <<hi % 65536, lo % 65536>>

RotrSmall(a, n) ==
  IF n = 0 THEN a
  ELSE <<(a[1] \div Pow2(n)) + (a[2] % Pow2(n)) * Pow2(16 - n),
         (a[2] \div Pow2(n)) + (a[1] % Pow2(n)) * Pow2(16 - n)>>

\* rotate right by n, 0 <= n < 32
Rotr(a, n) == IF n < 16 THEN RotrSmall(a, n) ELSE RotrSmall(<<a[2], a[1]>>, n - 16)

\* shift right by n, 0 < n < 16
Shr(a, n) ==
  <<a[1] \div Pow2(n), (a[2] \div Pow2(n)) + (a[1] % Pow2(n)) * Pow2(16 - n)>>

SHA256_K == <<
  <<17034, 12184>>, <<28983, 17553>>, <<46528, 64463>>, <<59829, 56229>>,
  <<14678, 49755>>, <<23025, 4593>>, <<37439, 33444>>, <<43804, 24277>>,
  <<55303, 43672>>, <<4739, 23297>>, <<9265, 34238>>, <<21772, 32195>>,
  <<29374, 23924>>, <<32990, 45566>>, <<39900, 1703>>, <<49563, 61812>>,
  <<58523, 27073>>, <<61374, 18310>>, <<4033, 40390>>, <<9228, 41420>>,
  <<11753, 11375>>, <<19060, 33962>>, <<23728, 43484>>, <<30457, 35034>>,
  <<38974, 20818>>, <<43057, 50797>>, <<45059, 10184>>, <<48985, 32711>>,
  <<50912, 3059>>, <<54695, 37191>>, <<1738, 25425>>, <<5161, 10599>>,
  <<10167, 2693>>, <<11803, 8504>>, <<19756, 28156>>, <<21304, 3347>>,
  <<25866, 29524>>, <<30314, 2747>>, <<33218, 51502>>, <<37490, 11397>>,
  <<41663, 59553>>, <<43034, 26187>>, <<49739, 35696>>, <<51052, 20899>>,
  <<53650, 59417>>, <<54937, 1572>>, <<62478, 13701>>, <<4202, 41072>>,
  <<6564, 49430>>, <<7735, 27656>>, <<10056, 30540>>, <<13488, 48309>>,
  <<14620, 3251>>, <<20184, 43594>>, <<23452, 51791>>, <<26670, 28659>>,
  <<29839, 33518>>, <<30885, 25455>>, <<33992, 30740>>, <<36039, 520>>,
  <<37054, 65530>>, <<42064, 27883>>, <<48889, 41975>>, <<50801, 30962>>
>>

SHA256_H0 == <<
  <<27145, 58983>>, <<47975, 44677>>, <<15470, 62322>>, <<42319, 62778>>,
  <<20750, 21119>>, <<39685, 26764>>, <<8067, 55723>>, <<23520, 52505>>
>>

BigSigma0(x) == Xor3W(Rotr(x, 2), Rotr(x, 13), Rotr(x, 22))
BigSigma1(x) == Xor3W(Rotr(x, 6), Rotr(x, 11), Rotr(x, 25))
SmallSigma0(x) == Xor3W(Rotr(x, 7), Rotr(x, 18), Shr(x, 3))
SmallSigma1(x) == Xor3W(Rotr(x, 17), Rotr(x, 19), Shr(x, 10))
Ch(x, y, z) == <<Ch16(x[1], y[1], z[1]), Ch16(x[2], y[2], z[2])>>
Maj(x, y, z) == <<Maj16(x[1], y[1], z[1]), Maj16(x[2], y[2], z[2])>>

\* W[t] for t = Len(w) + 1, from the words before it
Sha256NextWord(w) ==
  LET t == Len(w) + 1
  IN AddW(AddW(SmallSigma1(w[t - 2]), w[t - 7]), AddW(SmallSigma0(w[t - 15]), w[t - 16]))

RECURSIVE Sha256Extend(_, _)
\* the schedule w grown by count more words; the recursion halves count, and
\* the first half is computed before the second is started
Sha256Extend(w, count) ==
  IF count = 1 THEN Append(w, Sha256NextWord(w))
  ELSE LET half == Sha256Extend(w, count \div 2)
       IN IF Len(half) > 0 THEN Sha256Extend(half, count - (count \div 2)) ELSE <<>>

\* the message schedule W[1..64] of a block of 16 words
Sha256Schedule(block) == Sha256Extend(block, 48)

Sha256Round(s, k, w) ==
  LET t1 == AddW(AddW(AddW(s[8], BigSigma1(s[5])), AddW(Ch(s[5], s[6], s[7]), k)), w)
      t2 == AddW(BigSigma0(s[1]), Maj(s[1], s[2], s[3]))
  IN <<AddW(t1, t2), s[1], s[2], s[3], AddW(s[4], t1), s[5], s[6], s[7]>>

RECURSIVE Sha256Rounds(_, _, _, _)
\* the rounds t .. t + count - 1 applied to the working variables s; the
\* recursion halves count, and the first half is computed before the second
\* is started
Sha256Rounds(s, w, t, count) ==
  IF count = 1 THEN Sha256Round(s, SHA256_K[t], w[t])
  ELSE LET half == Sha256Rounds(s, w, t, count \div 2)
       IN IF Len(half) > 0
          THEN Sha256Rounds(half, w, t + (count \div 2), count - (count \div 2))
          ELSE <<>>

\* the compression of one block into the hash value h; the schedule is
\* computed before the rounds are started
Sha256Compress(h, block) ==
  LET w == Sha256Schedule(block)
      s == IF Len(w) = 64 THEN Sha256Rounds(h, w, 1, 64) ELSE <<>>
  IN [i \in 1..8 |-> AddW(h[i], s[i])]

\* n zero bytes
Zeros(n) == [i \in 1..n |-> 0]

\* the message length in bits, eight bytes big endian (fewer than 2^24 bits)
Sha256LengthBytes(n) ==
  <<0, 0, 0, 0, 0, (n * 8) \div 65536, ((n * 8) \div 256) % 256, (n * 8) % 256>>

Sha256Pad(m) ==
  m \o <<128>> \o Zeros((119 - (Len(m) % 64)) % 64) \o Sha256LengthBytes(Len(m))

Sha256Word(p, i) == <<p[i] * 256 + p[i + 1], p[i + 2] * 256 + p[i + 3]>>

Sha256Block(p, b) == [j \in 1..16 |-> Sha256Word(p, 64 * (b - 1) + 4 * (j - 1) + 1)]

RECURSIVE Sha256Blocks(_, _, _)
Sha256Blocks(h, p, b) ==
  IF 64 * (b - 1) >= Len(p) THEN h
  ELSE LET n == Sha256Compress(h, Sha256Block(p, b))
       IN IF n[1][1] >= 0 THEN Sha256Blocks(n, p, b + 1) ELSE <<>>

WordBytes(w) == <<w[1] \div 256, w[1] % 256, w[2] \div 256, w[2] % 256>>

\* hashlib.sha256(m).digest()
Sha256(m) ==
  LET h == Sha256Blocks(SHA256_H0, Sha256Pad(m), 1)
  IN Concat([i \in 1..8 |-> WordBytes(h[i])])

\* the key of at most 64 bytes, zero padded to the block size
HmacBlockKey(key) == key \o Zeros(64 - Len(key))

\* hmac.new(key, msg, digestmod=hashlib.sha256).digest(), RFC 2104
HmacSha256(key, msg) ==
  LET k == HmacBlockKey(key)
      ipad == [i \in 1..64 |-> Xor16(k[i], 54)]
      opad == [i \in 1..64 |-> Xor16(k[i], 92)]
  IN Sha256(opad \o Sha256(ipad \o msg))

-----------------------------------------------------------------------------
(* DataCollectorClient.__build_authorization_headers *)

\* x_ms_date.strftime("%a, %d %b %Y %H:%M:%S GMT")
get_xmsdate_str(x_ms_date) ==
  DAY_ABBR[Weekday(x_ms_date) + 1] \o <<",", " ">> \o TwoDigits(x_ms_date.day)
    \o <<" ">> \o MONTH_ABBR[x_ms_date.month] \o <<" ">> \o FourDigits(x_ms_date.year)
    \o <<" ">> \o TwoDigits(x_ms_date.hour) \o <<":">> \o TwoDigits(x_ms_date.minute)
    \o <<":">> \o TwoDigits(x_ms_date.second) \o <<" ", "G", "M", "T">>

\* x_headers = "x-ms-date:" + x_ms_date_str
x_headers(x_ms_date_str) == <<"x", "-", "m", "s", "-", "d", "a", "t", "e", ":">> \o x_ms_date_str

\* the mutation of string_to_hash that leaves the content length out
string_to_hash_no_length(content_length, x_hdrs) ==
  <<"P", "O", "S", "T">> \o <<"\n">> \o <<"\n">> \o DEFAULT_CONTENT_TYPE
    \o <<"\n">> \o x_hdrs \o <<"\n">> \o DEFAULT_RESOURCE

\* f"POST\n{content_length}\n{DEFAULT_CONTENT_TYPE}\n{x_headers}\n{DEFAULT_RESOURCE}"
string_to_hash(content_length, x_hdrs) ==
  <<"P", "O", "S", "T">> \o <<"\n">> \o IntStr(content_length) \o <<"\n">> \o DEFAULT_CONTENT_TYPE
    \o <<"\n">> \o x_hdrs \o <<"\n">> \o DEFAULT_RESOURCE

\* base64.b64encode(hmac.new(base64.b64decode(shared_key), bytes_to_hash,
\*                           digestmod=hashlib.sha256).digest()).decode()
encoded_hash(shared_key, to_hash) ==
  B64Encode(HmacSha256(B64Decode(shared_key), Utf8(to_hash)))

\* the same value left uncomputed: one symbol that stands for the 44
\* characters of encoded_hash(shared_key, to_hash)
encoded_hash_term(shared_key, to_hash) ==
  <<[hmac_sha256_key |-> shared_key, message |-> to_hash]>>

\* __build_authorization_headers of the client self.  With exact the digest is
\* computed; without, it stays the symbol encoded_hash_term, which is equal
\* for equal keys and messages only.
build_authorization_headers(self, content_length, log_type, x_ms_date, exact) ==
  LET x_ms_date_str == get_xmsdate_str(x_ms_date)
      to_hash == string_to_hash(content_length, x_headers(x_ms_date_str))
      digest == IF exact THEN encoded_hash(self.shared_key, to_hash)
                ELSE encoded_hash_term(self.shared_key, to_hash)
      authorization == <<"S", "h", "a", "r", "e", "d", "K", "e", "y", " ">>
                         \o self.customer_id \o <<":">> \o digest
  IN ("content-type" :> DEFAULT_CONTENT_TYPE) @@ ("Authorization" :> authorization)
       @@ ("Log-Type" :> log_type) @@ ("x-ms-date" :> x_ms_date_str)

-----------------------------------------------------------------------------
(* DataCollectorClient.__batch *)

\* row_size = len(str(row))
row_size(row) == Len(PyStr(row))

\* the mutation of __batch that compares with < instead of <=
batch_step_strict(st, row, max_batch_size) ==
  IF st.batch_size + row_size(row) < max_batch_size
  THEN [batches |-> st.batches, tmp |-> Append(st.tmp, row),
        batch_size |-> st.batch_size + row_size(row)]
  ELSE [batches |-> Append(st.batches, st.tmp), tmp |-> <<row>>,
        batch_size |-> row_size(row)]

\* the mutation of __batch that starts the new batch empty, losing the row
batch_step_drop(st, row, max_batch_size) ==
  IF st.batch_size + row_size(row) <= max_batch_size
  THEN [batches |-> st.batches, tmp |-> Append(st.tmp, row),
        batch_size |-> st.batch_size + row_size(row)]
  ELSE [batches |-> Append(st.batches, st.tmp), tmp |-> <<>>,
        batch_size |-> row_size(row)]

\* one iteration of "for row in data"
batch_step(st, row, max_batch_size) ==
  IF st.batch_size + row_size(row) <= max_batch_size
  THEN [batches |-> st.batches, tmp |-> Append(st.tmp, row),
        batch_size |-> st.batch_size + row_size(row)]
  ELSE [batches |-> Append(st.batches, st.tmp), tmp |-> <<row>>,
        batch_size |-> row_size(row)]

RECURSIVE batch_loop(_, _, _)
\* the whole "for row in data" loop, from the loop state st
batch_loop(st, rows, max_batch_size) ==
  IF rows = <<>> THEN st
  ELSE batch_loop(batch_step(st, Head(rows), max_batch_size), Tail(rows), max_batch_size)

\* the mutation of __batch that appends the last batch unconditionally
batch_always_flush(rows, max_batch_size) ==
  LET st == batch_loop([batches |-> <<>>, tmp |-> <<>>, batch_size |-> 0],
                       rows, max_batch_size)
  IN Append(st.batches, st.tmp)

\* __batch(data) of a client whose _max_batch_size is max_batch_size
batch(rows, max_batch_size) ==
  LET st == batch_loop([batches |-> <<>>, tmp |-> <<>>, batch_size |-> 0],
                       rows, max_batch_size)
  IN IF st.batch_size # 0 THEN Append(st.batches, st.tmp) ELSE st.batches

-----------------------------------------------------------------------------
(* Inputs *)

\* {"col": "data"}
ROW_COL_DATA == << <<<<"c", "o", "l">>, <<"d", "a", "t", "a">>>> >>
\* {"c": "é"}: 10 characters as str(row), 15 as JSON
ROW_ACCENT == << <<<<"c">>, <<EACUTE>>>> >>
Rows == {ROW_COL_DATA, ROW_ACCENT}

RECURSIVE SeqsUpTo(_, _)
\* the sequences over S of length at most n
SeqsUpTo(S, n) ==
  IF n = 0 THEN {<<>>}
  ELSE LET shorter == SeqsUpTo(S, n - 1)
       IN shorter \cup {Append(s, x) : s \in {t \in shorter : Len(t) = n - 1}, x \in S}

\* the row lists post_data is called with
DataLists == SeqsUpTo(Rows, MaxRows)

\* the values the max_batch_size setter is called with
MaxBatchSizes == {-1, 0, 15, 25, 33, 45}

TEST_TABLE == <<"T", "e", "s", "t", "T", "a", "b", "l", "e">>
LogTypes == {TEST_TABLE}

\* DataCollectorClient("customer_id", "c2hhcmVkX2tleQ==")
TestClient == [customer_id |-> <<"c", "u", "s", "t", "o", "m", "e", "r", "_", "i", "d">>, shared_key |-> <<"c", "2", "h", "h", "c", "m", "V", "k", "X", "2", "t", "l", "e", "Q", "=", "=">>]

\* what the service answers
Responses ==
  { [status_code |-> 200, text |-> "OK"],
    [status_code |-> 403, text |-> "Forbidden"],
    [status_code |-> 500, text |-> "Internal Server Error"] }

\* what session.post raises by itself
ClientExceptions == {"Timeout", "ConnectionError"}

\* the wall clock when the client is constructed
StartOfClock == DateTime(1999, 12, 31, 23, 59, 58)

-----------------------------------------------------------------------------
(* State *)

VARIABLES
  max_batch_size,   \* self._max_batch_size
  clock,            \* the UTC wall clock, read by datetime.datetime.utcnow()
  ticks,            \* seconds elapsed since StartOfClock
  pc,               \* where post_data stands: idle, loop, posting, returned, raised
  data,             \* post_data's argument data
  log_type,         \* post_data's argument log_type
  called_at,        \* the wall clock when post_data was entered
  batched_data,     \* post_data's local batched_data
  metric,           \* post_data's local metric
  next_batch,       \* the position of the for loop in batched_data
  session,          \* the requests Session of the with block: none, open, closed
  session_headers,  \* session.headers
  sent,             \* the POSTs issued by this call, with their outcome
  result,           \* what post_data returned to its caller
  error,            \* what post_data raised to its caller
  sign_args,        \* the arguments of a direct __build_authorization_headers call
  sign_headers      \* what that call returned

post_vars ==
  <<pc, data, log_type, called_at, batched_data, metric, next_batch, session,
    session_headers, sent, result, error>>
sign_vars == <<sign_args, sign_headers>>
vars == <<max_batch_size, clock, ticks, post_vars, sign_vars>>

NoHeaders == <<>>
NoResult == [kind |-> "none", value |-> <<>>]
NoError == [kind |-> "none", status_code |-> 0, text |-> ""]
NoSignArgs ==
  [self |-> TestClient, content_length |-> 0, log_type |-> <<>>, x_ms_date |-> StartOfClock]

Running == {"loop", "posting"}
Finished == {"returned", "raised"}

\* DataCollectorClient.__init__ has run; nothing was posted yet
InitClient ==
  /\ max_batch_size = DEFAULT_MAX_BATCH_SIZE
  /\ clock = StartOfClock
  /\ ticks = 0
  /\ pc = "idle"
  /\ data = <<>>
  /\ log_type = <<>>
  /\ called_at = StartOfClock
  /\ batched_data = <<>>
  /\ metric = <<>>
  /\ next_batch = 1
  /\ session = "none"
  /\ session_headers = NoHeaders
  /\ sent = <<>>
  /\ result = NoResult
  /\ error = NoError

Init ==
  /\ InitClient
  /\ sign_args = NoSignArgs
  /\ sign_headers = NoHeaders

-----------------------------------------------------------------------------
(* Operations *)

\* the max_batch_size setter, while no post_data call is in progress
set_max_batch_size(value) ==
  /\ pc = "idle"
  /\ max_batch_size' = value
  /\ UNCHANGED <<clock, ticks, post_vars, sign_vars>>

\* one second passes, while the client is idle or a call is running (handing
\* the list or the exception to the caller takes no time)
Tick ==
  /\ ticks < MaxTicks
  /\ pc \notin Finished
  /\ ticks' = ticks + 1
  /\ clock' = AddSecond(clock)
  /\ UNCHANGED <<max_batch_size, post_vars, sign_vars>>

\* the mutation of the with block that leaves the session open on exit
with_exit_leak(s) == s

\* Session.__exit__ at the end of "with Session() as session", on a normal
\* exit and on an exception alike
with_exit(s) == "closed"

\* post_data is entered: the rows are batched and the session is opened
post_data_enter(d, lt) ==
  /\ pc = "idle"
  /\ data' = d
  /\ log_type' = lt
  /\ called_at' = clock
  /\ batched_data' = batch(d, max_batch_size)
  /\ metric' = <<>>
  /\ next_batch' = 1
  /\ session' = "open"
  /\ session_headers' = NoHeaders
  /\ sent' = <<>>
  /\ result' = NoResult
  /\ error' = NoError
  /\ pc' = "loop"
  /\ UNCHANGED <<max_batch_size, clock, ticks, sign_vars>>

\* the mutation of post_data that signs every request with the time of entry
x_ms_date_of_entry(now, entered) == entered

\* x_ms_date=datetime.datetime.utcnow(), evaluated in the loop body
x_ms_date_arg(now, entered) == now

\* content_length=len(data_batch)
content_length_arg(data_batch, a_batch) == Len(data_batch)

\* one iteration of "for batch in batched_data", up to the POST being issued
post_data_send ==
  /\ pc = "loop"
  /\ next_batch <= Len(batched_data)
  /\ LET a_batch == batched_data[next_batch]
         data_batch == JsonDumps(a_batch)
         headers == build_authorization_headers(
                      TestClient, content_length_arg(data_batch, a_batch), log_type,
                      x_ms_date_arg(clock, called_at), FALSE)
     IN /\ session_headers' = headers
        /\ sent' = Append(sent, [batch_no |-> next_batch, body |-> data_batch,
                                 headers |-> headers, posted_at |-> clock,
                                 posted_tick |-> ticks, answered_tick |-> ticks,
                                 outcome |-> "pending", status_code |-> 0])
  /\ pc' = "posting"
  /\ UNCHANGED <<max_batch_size, clock, ticks, data, log_type, called_at, batched_data,
                 metric, next_batch, session, result, error, sign_vars>>

\* the mutation of post_data that gives up on server errors only
is_failure_5xx(status_code) == status_code >= 500

\* response.status_code != 200
is_failure(status_code) == status_code # HTTP_OK

\* the mutation of post_data that counts the characters of the body
metric_entry_chars(a_batch) == Len(JsonDumps(a_batch))

\* len(batch), the entry appended to metric
metric_entry(a_batch) == Len(a_batch)

Answered(outcome, status_code) ==
  [sent EXCEPT ![Len(sent)] =
     [@ EXCEPT !.outcome = outcome, !.status_code = status_code, !.answered_tick = ticks]]

\* session.post returns a response: the rest of the iteration
post_data_response(response) ==
  /\ pc = "posting"
  /\ sent' = Answered("response", response.status_code)
  /\ IF is_failure(response.status_code)
     THEN /\ error' = [kind |-> "DataCollectorError",
                       status_code |-> response.status_code, text |-> response.text]
          /\ session' = with_exit(session)
          /\ pc' = "raised"
          /\ UNCHANGED <<metric, next_batch>>
     ELSE /\ metric' = Append(metric, metric_entry(batched_data[next_batch]))
          /\ next_batch' = next_batch + 1
          /\ pc' = "loop"
          /\ UNCHANGED <<error, session>>
  /\ UNCHANGED <<max_batch_size, clock, ticks, data, log_type, called_at, batched_data,
                 session_headers, result, sign_vars>>

\* session.post raises (timeout, connection error): nothing catches it
post_data_post_raises(exception) ==
  /\ pc = "posting"
  /\ sent' = Answered("exception", 0)
  /\ error' = [kind |-> exception, status_code |-> 0, text |-> ""]
  /\ session' = with_exit(session)
  /\ pc' = "raised"
  /\ UNCHANGED <<max_batch_size, clock, ticks, data, log_type, called_at, batched_data,
                 metric, next_batch, session_headers, result, sign_vars>>

\* the loop is over: the with block ends and metric is returned
post_data_return ==
  /\ pc = "loop"
  /\ next_batch > Len(batched_data)
  /\ session' = with_exit(session)
  /\ result' = [kind |-> "list", value |-> metric]
  /\ pc' = "returned"
  /\ UNCHANGED <<max_batch_size, clock, ticks, data, log_type, called_at, batched_data,
                 metric, next_batch, session_headers, sent, error, sign_vars>>

\* the caller has its list or its exception, and post_data's frame is gone;
\* the client keeps its settings and can be used again
post_data_exit ==
  /\ pc \in {"returned", "raised"}
  /\ pc' = "idle"
  /\ data' = <<>>
  /\ log_type' = <<>>
  /\ called_at' = StartOfClock
  /\ batched_data' = <<>>
  /\ metric' = <<>>
  /\ next_batch' = 1
  /\ session' = "none"
  /\ session_headers' = NoHeaders
  /\ sent' = <<>>
  /\ result' = NoResult
  /\ error' = NoError
  /\ UNCHANGED <<max_batch_size, clock, ticks, sign_vars>>

Next ==
  \/ \E value \in MaxBatchSizes : set_max_batch_size(value)
  \/ Tick
  \/ \E d \in DataLists, lt \in LogTypes : post_data_enter(d, lt)
  \/ post_data_send
  \/ \E response \in Responses : post_data_response(response)
  \/ \E exception \in ClientExceptions : post_data_post_raises(exception)
  \/ post_data_return
  \/ post_data_exit

Spec == Init /\ [][Next]_vars

-----------------------------------------------------------------------------
(* __build_authorization_headers called directly, as the test does *)

OtherClient == [customer_id |-> <<"w", "s">>, shared_key |-> <<"A", "Q", "I", "D", "B", "A", "=", "=">>]

\* the arguments of test_build_authorization_header
TestVectorArgs ==
  [self |-> TestClient, content_length |-> 1, log_type |-> TEST_TABLE,
   x_ms_date |-> DateTime(2000, 1, 1, 1, 1, 1)]

\* one timestamp for every day of the week
SignDates ==
  { DateTime(2000, 1, 1, 1, 1, 1), DateTime(1999, 12, 31, 23, 59, 59),
    DateTime(2024, 2, 29, 12, 30, 45), DateTime(2023, 10, 9, 8, 5, 3),
    DateTime(2026, 11, 3, 0, 0, 0), DateTime(2021, 7, 14, 19, 7, 10),
    DateTime(2022, 5, 22, 10, 10, 10) }

SignArgs ==
  [self : {TestClient, OtherClient}, content_length : {1, 34},
   log_type : {TEST_TABLE, <<"T">>}, x_ms_date : SignDates]

InitSign ==
  /\ InitClient
  /\ sign_args \in SignArgs
  /\ sign_headers = NoHeaders

\* headers = client.__build_authorization_headers(content_length, log_type, x_ms_date)
sign_build ==
  /\ sign_headers = NoHeaders
  /\ sign_headers' = build_authorization_headers(
                       sign_args.self, sign_args.content_length, sign_args.log_type,
                       sign_args.x_ms_date, TRUE)
  /\ UNCHANGED <<max_batch_size, clock, ticks, post_vars, sign_args>>

NextSign == sign_build

SpecSign == InitSign /\ [][NextSign]_vars

-----------------------------------------------------------------------------
(* Claims *)

\* the call has batched its rows (the batches exist from entry to exit)
Batched == pc # "idle"

\* C1: for a non-empty row list and a positive max_batch_size, the batches of
\* __batch concatenated in order are the input row list: every row is in
\* exactly one batch and the order of the rows is kept.
C1_BatchesPartitionInput ==
  (Batched /\ data # <<>> /\ max_batch_size > 0) =>
    /\ Concat(batched_data) = data
    /\ Sum([k \in 1..Len(batched_data) |-> Len(batched_data[k])]) = Len(data)

\* C1 witness: three rows were split into several batches under a positive ceiling
C1_Witness ==
  Batched /\ max_batch_size > 0 /\ Len(data) = 3 /\ Len(batched_data) >= 2

\* C2 as claimed: every batch of two or more rows has a JSON body (brackets
\* and separators included) no longer than max_batch_size, and three rows
\* {"col": "data"} with ceiling 33 come out as three singleton batches.
C2_BodyWithinCeiling ==
  Batched =>
    /\ \A k \in 1..Len(batched_data) :
         Len(batched_data[k]) >= 2 => Len(JsonDumps(batched_data[k])) <= max_batch_size
    /\ (data = <<ROW_COL_DATA, ROW_COL_DATA, ROW_COL_DATA>> /\ max_batch_size = 33) =>
         batched_data = << <<ROW_COL_DATA>>, <<ROW_COL_DATA>>, <<ROW_COL_DATA>> >>

\* C3 as claimed: when every row is bigger than max_batch_size, __batch returns
\* exactly one singleton batch per row, in input order, and nothing else.
C3_OversizedRowsAreSingletons ==
  (Batched /\ \A k \in 1..Len(data) : Len(PyStr(data[k])) > max_batch_size) =>
    batched_data = [k \in 1..Len(data) |-> <<data[k]>>]

\* C4: the batches are POSTed one at a time in batch order, each at most once;
\* a response whose status is not 200 is the last POST of the call, post_data
\* raises DataCollectorError for it and returns no list.
C4_FailFastNoRetry ==
  /\ Len(sent) <= Len(batched_data)
  /\ \A k \in 1..Len(sent) :
       /\ sent[k].batch_no = k
       /\ sent[k].body = JsonDumps(batched_data[k])
       /\ k < Len(sent) => (sent[k].outcome = "response" /\ sent[k].status_code = 200)
       /\ (sent[k].outcome = "response" /\ sent[k].status_code # 200) =>
            /\ k = Len(sent)
            /\ pc = "raised"
            /\ error.kind = "DataCollectorError"
            /\ error.status_code = sent[k].status_code
            /\ result = NoResult

\* C4 witness: the second of three or more batches was refused, and the call
\* raised with the later batches never POSTed
C4_Witness ==
  /\ pc = "raised"
  /\ error.kind = "DataCollectorError"
  /\ Len(sent) = 2
  /\ Len(batched_data) >= 3

\* C5: when every POST returned 200, the returned list has one entry per batch
\* of __batch, in batch order, each the number of rows of its batch; the
\* entries sum to the number of input rows and there are as many as POSTs.
C5_MetricPerBatch ==
  pc = "returned" =>
    /\ result.kind = "list"
    /\ result.value = [k \in 1..Len(batched_data) |-> Len(batched_data[k])]
    /\ Sum(result.value) = Len(data)
    /\ Len(result.value) = Len(sent)
    /\ \A k \in 1..Len(sent) : sent[k].status_code = 200

\* C5 witness: a call of several batches returned its list
C5_Witness == pc = "returned" /\ Len(result.value) >= 2 /\ Len(data) = 3

\* C6: the session opened by post_data is closed once post_data has returned
\* or raised, on each exit path; it is open only while the call runs.
C6_SessionClosedOnExit ==
  /\ pc \in Finished => session = "closed"
  /\ session = "open" => pc \in Running

\* C6 witness: a refusal in the middle of the batch sequence ended the call
C6_Witness ==
  /\ pc = "raised"
  /\ error.kind = "DataCollectorError"
  /\ Len(sent) >= 2
  /\ Len(sent) < Len(batched_data)
  /\ session = "closed"

\* C7: __build_authorization_headers returns content-type, Log-Type, an
\* x-ms-date header in RFC 1123 form and Authorization = "SharedKey <id>:" +
\* base64(HMAC-SHA256(base64-decoded key, "POST\n<length>\napplication/json\n
\* x-ms-date:<the x-ms-date header>\n/api/logs")); for the arguments of the
\* test the two headers are the expected literals.
C7_AuthorizationHeader ==
  sign_headers # NoHeaders =>
    LET signed ==
          <<"P", "O", "S", "T">> \o <<"\n">> \o IntStr(sign_args.content_length) \o <<"\n">>
            \o <<"a", "p", "p", "l", "i", "c", "a", "t", "i", "o", "n", "/", "j", "s", "o", "n">> \o <<"\n">> \o <<"x", "-", "m", "s", "-", "d", "a", "t", "e", ":">> \o sign_headers["x-ms-date"]
            \o <<"\n">> \o <<"/", "a", "p", "i", "/", "l", "o", "g", "s">>
    IN /\ DOMAIN sign_headers = {"content-type", "Authorization", "Log-Type", "x-ms-date"}
       /\ sign_headers["content-type"] = <<"a", "p", "p", "l", "i", "c", "a", "t", "i", "o", "n", "/", "j", "s", "o", "n">>
       /\ sign_headers["Log-Type"] = sign_args.log_type
       /\ sign_headers["x-ms-date"] = get_xmsdate_str(sign_args.x_ms_date)
       /\ sign_headers["Authorization"] =
            <<"S", "h", "a", "r", "e", "d", "K", "e", "y", " ">> \o sign_args.self.customer_id \o <<":">>
              \o B64Encode(HmacSha256(B64Decode(sign_args.self.shared_key), Utf8(signed)))
       /\ sign_args = TestVectorArgs =>
            /\ sign_headers["Authorization"] =
                 <<"S", "h", "a", "r", "e", "d", "K", "e", "y", " ", "c", "u", "s", "t", "o", "m",
                   "e", "r", "_", "i", "d", ":", "p", "9", "r", "l", "t", "W", "g", "A", "b", "X",
                   "z", "Q", "t", "X", "8", "i", "V", "4", "P", "1", "E", "9", "5", "f", "v", "A",
                   "3", "n", "7", "i", "m", "v", "y", "s", "p", "1", "6", "f", "P", "U", "X", "K",
                   "E", "=">>
            /\ sign_headers["x-ms-date"] =
                 <<"S", "a", "t", ",", " ", "0", "1", " ", "J", "a", "n", " ", "2", "0", "0", "0",
                   " ", "0", "1", ":", "0", "1", ":", "0", "1", " ", "G", "M", "T">>

\* C7 witness: the headers of the test's arguments were built
C7_Witness == sign_args = TestVectorArgs /\ sign_headers # NoHeaders

\* C8: for an empty input list __batch returns an empty batch list, whatever
\* max_batch_size is, and the call does not raise.
C8_EmptyInputNoBatches ==
  (Batched /\ data = <<>>) => (batched_data = <<>> /\ pc # "raised")

\* C8 witness: an empty list was batched under a ceiling of 0 or below
C8_Witness == Batched /\ data = <<>> /\ max_batch_size <= 0

\* C9: every POST carries headers built in its own loop iteration: from the
\* length of the body of that POST and from the clock as read in that
\* iteration, after the previous batch was answered; the session carries the
\* headers of the latest POST.
C9_FreshHeadersPerRequest ==
  /\ \A k \in 1..Len(sent) :
       /\ sent[k].headers =
            build_authorization_headers(TestClient, Len(sent[k].body), log_type,
                                        sent[k].posted_at, FALSE)
       /\ k > 1 => sent[k].posted_tick >= sent[k - 1].answered_tick
  /\ sent # <<>> => session_headers = sent[Len(sent)].headers

\* C9 witness: time passed between two POSTs of one call, whose headers differ
C9_Witness ==
  /\ Len(sent) >= 2
  /\ sent[2].posted_tick > sent[1].posted_tick
  /\ sent[1].posted_tick > 0
  /\ sent[2].headers # sent[1].headers

\* the position in data of the first row of batch j
FirstRowOf(j) == 1 + Sum([m \in 1..(j - 1) |-> Len(batched_data[m])])

\* the batch that holds the row at position k of data
BatchOf(k) ==
  CHOOSE j \in 1..Len(batched_data) :
    FirstRowOf(j) <= k /\ k < FirstRowOf(j) + Len(batched_data[j])

\* the accounted size of the rows of k's batch up to and including row k
AccountedUpTo(k) ==
  LET first == FirstRowOf(BatchOf(k))
  IN Sum([m \in 1..(k - first + 1) |-> Len(PyStr(data[first + m - 1]))])

=============================================================================
